---- MODULE Spec2Model ----
(***************************************************************************)
(* BitacoraFx: the account/entry balance-consistency layer.                *)
(*                                                                         *)
(* Two storage backends (AsyncStorage lists, Firestore collections), the   *)
(* facade that dispatches on useLocal, and the Dashboard screen handlers   *)
(* that drive the create / update / delete protocol for one account.       *)
(*                                                                         *)
(* Every backend operator takes a parameter f: the number of the medium    *)
(* access (getItem, setItem, addDoc, updateDoc, ...) of that operation     *)
(* that fails, counted from 1 in program order; f = 0 (or any number past  *)
(* the last access) means that the medium answers every access.            *)
(* createdAt / updatedAt stamps are not modelled: no operation reads them. *)
(***************************************************************************)
EXTENDS Integers, Sequences, FiniteSets, TLC

VARIABLES
    db,               \* config/firebase.config: the options the app was initialised with
    useLocal,         \* api/entries: const useLocal = !isFirebaseConfigured()
    accountsUseLocal, \* api/accounts: const useLocal = !isFirebaseConfigured()
    asyncStorage,     \* the on-device key-value store (local variant)
    firestore,        \* the remote document store (remote variant)
    now,              \* the wall clock read by new Date()
    usedIds,          \* identifiers already handed out: [acc, ent]
    account,          \* DashboardScreen: route.params.account
    entries,          \* DashboardScreen: useState entries
    currentBalance,   \* DashboardScreen: useState currentBalance
    selectedEntry,    \* DashboardScreen: useState selectedEntry
    editModalVisible, \* DashboardScreen: useState editModalVisible
    pending,          \* local calls in flight: where each is suspended, what it has read
    last              \* the last completed operation and its outcome

vars == <<db, useLocal, accountsUseLocal, asyncStorage, firestore, now, usedIds, account, entries,
          currentBalance, selectedEntry, editModalVisible, pending, last>>

ui == <<account, entries, currentBalance, selectedEntry, editModalVisible>>

----------------------------------------------------------------------------
(* Bounds and input sets                                                   *)

MaxEntries == 3                     \* entry identifiers a run may hand out
MaxAccounts == 2                    \* account identifiers a caller may name
MaxFacadeEntries == 2               \* entry identifiers a facade run may hand out
MaxCalls == 4                       \* facade calls of a side-by-side run
MaxFaultCalls == 4                  \* facade calls of a run over a failing medium
MaxFault == 4                       \* the accesses of one call the medium may fail
MaxAccess == 4                      \* the accesses of one facade call of a handler
MaxCrashEntries == 2                \* entries created in a run over a failing medium
MaxProbeCalls == 3                  \* facade calls of a run under any configuration
MaxSetupCalls == 3                  \* facade calls that run before two calls interleave

EntryIds == 1..MaxEntries
FacadeEntryIds == 1..MaxFacadeEntries
AccountIds == 1..MaxAccounts
InitialBalances == {1000}
ProfitLosses == {100, -30, 50}
NotesValues == {"undefined", "note"}
\* The text of the notes plays no part in any balance: the Dashboard runs
\* leave the notes field empty (notes: newEntry.notes || undefined).
DashboardNotes == {"undefined"}
\* What a caller of the facade may pass.
Dates == {1, 2}
CreatedBalances == {1100}
UpdatedBalances == {1070}
None == [id |-> 0]                  \* null / no selection

----------------------------------------------------------------------------
(* Records                                                                 *)

\* ...updates spread over a stored record: the fields of u win.
Merge(r, u) ==
    [k \in (DOMAIN r) \cup (DOMAIN u) |-> IF k \in DOMAIN u THEN u[k] ELSE r[k]]

\* The outcome of an operation: the stores after it, "ok" or the failure,
\* and the value it resolves to.
Result(w, err, val) == [w |-> w, err |-> err, val |-> val]

Range(s) == {s[i] : i \in DOMAIN s}

\* !updates.accountId, !accountId: the argument is missing (undefined).
Missing(accountId) == accountId = None.id

\* Array.prototype.findIndex, 1-based; 0 when no element has the id (-1).
FindIndex(s, id) ==
    IF \E i \in DOMAIN s : s[i].id = id
    THEN CHOOSE i \in DOMAIN s : s[i].id = id /\ \A j \in 1..(i - 1) : s[j].id # id
    ELSE 0

\* Array.prototype.filter((x) => x.id !== id)
RECURSIVE FilterOutId(_, _)
FilterOutId(s, id) ==
    IF s = <<>> THEN <<>>
    ELSE IF Head(s).id = id THEN FilterOutId(Tail(s), id)
         ELSE <<Head(s)>> \o FilterOutId(Tail(s), id)

----------------------------------------------------------------------------
(* Backend selection: config/firebase.config and the probe of each facade. *)

\* getFirebaseConfig: a value of the Expo configuration, or the demo value.
ProjectIds == {"demo-project", "bitacorafx"}

ApiKeys == {"demo-api-key", "AIza"}

\* db as the facades find it: the options of the initialised app, or a db
\* whose app cannot be read (the probe throws).
Dbs ==
    {[readable |-> TRUE, projectId |-> p, apiKey |-> k] : p \in ProjectIds, k \in ApiKeys}
    \cup {[readable |-> FALSE, projectId |-> "demo-project", apiKey |-> "demo-api-key"]}

\* The configurations of the runs that do not study the selection itself:
\* nothing configured (demo values), everything configured.
TypicalDbs ==
    {d \in Dbs : d.readable /\ (d.projectId = "demo-project" <=> d.apiKey = "demo-api-key")}

\* api/entries: isFirebaseConfigured
Entries_isFirebaseConfigured(d) ==
    IF ~d.readable THEN FALSE
    ELSE LET isDemoConfig == d.projectId = "demo-project" \/ d.apiKey = "demo-api-key"
         IN ~isDemoConfig

\* Mutant: the accounts facade takes the configuration for a demo one only
\* when both values are the demo values.
Accounts_isFirebaseConfigured_bothDemo(d) ==
    IF ~d.readable THEN FALSE
    ELSE LET isDemoConfig == d.projectId = "demo-project" /\ d.apiKey = "demo-api-key"
         IN ~isDemoConfig

\* api/accounts: isFirebaseConfigured
Accounts_isFirebaseConfigured(d) ==
    IF ~d.readable THEN FALSE
    ELSE LET isDemoConfig == d.projectId = "demo-project" \/ d.apiKey = "demo-api-key"
         IN ~isDemoConfig

----------------------------------------------------------------------------
(* Local variant, accounts: api/accounts.local over AsyncStorage.          *)
(* as = [accounts |-> the list under @BitacoraFx:accounts,                 *)
(*       entries  |-> accountId -> the list under @BitacoraFx:entries_id]  *)
(* A key that was never written, or was removed, reads as the empty list   *)
(* (data ? JSON.parse(data) : []).                                         *)

\* try { getItem, JSON.parse } catch { return [] }
getStoredAccounts(as, fails) == IF fails THEN <<>> ELSE as.accounts

\* try { setItem } catch { throw }: the caller tests the failure itself.
saveAccounts(as, accounts) == [as EXCEPT !.accounts = accounts]

\* Mutant: the new account starts with a zero currentBalance.
createAccountLocal_zeroBalance(as, id, acct, f) ==
    LET accounts == getStoredAccounts(as, f = 1)
        newAccount == Merge(Merge([id |-> id], acct), [currentBalance |-> 0])
    IN IF f = 2 THEN Result(as, "StorageFailure", None)
       ELSE Result(saveAccounts(as, Append(accounts, newAccount)), "ok", id)

createAccountLocal(as, id, acct, f) ==
    LET accounts == getStoredAccounts(as, f = 1)
        newAccount == Merge(Merge([id |-> id], acct),
                            [currentBalance |-> acct.initialBalance])
    IN IF f = 2 THEN Result(as, "StorageFailure", None)
       ELSE Result(saveAccounts(as, Append(accounts, newAccount)), "ok", id)

\* Mutant: an id that is not in the list is inserted instead of rejected.
updateAccountLocal_upserts(as, id, updates, f) ==
    LET accounts == getStoredAccounts(as, f = 1)
        index == FindIndex(accounts, id)
    IN IF f = 2 THEN Result(as, "StorageFailure", None)
       ELSE IF index = 0
       THEN Result(saveAccounts(as, Append(accounts, Merge([id |-> id], updates))),
                   "ok", None)
       ELSE Result(saveAccounts(as, [accounts EXCEPT ![index] = Merge(@, updates)]),
                   "ok", None)

updateAccountLocal(as, id, updates, f) ==
    LET accounts == getStoredAccounts(as, f = 1)
        index == FindIndex(accounts, id)
    IN IF index = 0 THEN Result(as, "NotFound", None)
       ELSE IF f = 2 THEN Result(as, "StorageFailure", None)
       ELSE Result(saveAccounts(as, [accounts EXCEPT ![index] = Merge(@, updates)]),
                   "ok", None)

\* Mutant: the entries key of the account is never removed.
deleteAccountLocal_keepsEntries(as, id, f) ==
    LET accounts == getStoredAccounts(as, f = 1)
    IN IF f = 2 THEN Result(as, "StorageFailure", None)
       ELSE Result(saveAccounts(as, FilterOutId(accounts, id)), "ok", None)

\* Mutant: the filter is inverted when no account has the id, so that
\* deleting an unknown id empties the stored list.
deleteAccountLocal_dropsAll(as, id, f) ==
    LET accounts == getStoredAccounts(as, f = 1)
        filtered == IF FindIndex(accounts, id) = 0 THEN <<>>
                    ELSE FilterOutId(accounts, id)
    IN IF f = 2 THEN Result(as, "StorageFailure", None)
       ELSE Result([saveAccounts(as, filtered) EXCEPT !.entries[id] = <<>>],
                   "ok", None)

\* Mutant: the entries key of every account that is not stored any more is
\* swept, not only the key of the deleted id.
deleteAccountLocal_sweepsOrphans(as, id, f) ==
    LET accounts == getStoredAccounts(as, f = 1)
        filtered == FilterOutId(accounts, id)
        saved == saveAccounts(as, filtered)
    IN IF f = 2 THEN Result(as, "StorageFailure", None)
       ELSE IF f = 3 THEN Result(saved, "ok", None)
       ELSE Result([saved EXCEPT !.entries =
                       [a \in AccountIds |->
                           IF FindIndex(filtered, a) = 0 THEN <<>> ELSE @[a]]],
                   "ok", None)

deleteAccountLocal(as, id, f) ==
    LET accounts == getStoredAccounts(as, f = 1)
        filtered == FilterOutId(accounts, id)
        saved == saveAccounts(as, filtered)
    IN IF f = 2 THEN Result(as, "StorageFailure", None)
       \* try { removeItem(entriesKey) } catch { console.error }
       ELSE IF f = 3 THEN Result(saved, "ok", None)
       ELSE Result([saved EXCEPT !.entries[id] = <<>>], "ok", None)

getAllAccountsLocal(as, f) == Result(as, "ok", getStoredAccounts(as, f = 1))

getAccountByIdLocal(as, id, f) ==
    LET accounts == getStoredAccounts(as, f = 1)
        index == FindIndex(accounts, id)
    IN Result(as, "ok", IF index = 0 THEN None ELSE accounts[index])

----------------------------------------------------------------------------
(* Local variant, entries: api/entries.local                               *)

\* try { getItem, JSON.parse } catch { return [] }
getStoredEntries(as, accountId, fails) == IF fails THEN <<>> ELSE as.entries[accountId]

saveEntries(as, accountId, list) == [as EXCEPT !.entries[accountId] = list]

\* entries.sort((a, b) => b.date - a.date): a stable sort, date descending.
RECURSIVE InsertByDateDesc(_, _)
InsertByDateDesc(e, sorted) ==
    IF sorted = <<>> THEN <<e>>
    ELSE IF Head(sorted).date >= e.date
         THEN <<Head(sorted)>> \o InsertByDateDesc(e, Tail(sorted))
         ELSE <<e>> \o sorted

RECURSIVE SortByDateDesc(_)
SortByDateDesc(list) ==
    IF list = <<>> THEN <<>>
    ELSE InsertByDateDesc(list[Len(list)], SortByDateDesc(SubSeq(list, 1, Len(list) - 1)))

\* Mutant: the account balance is written first, the entry after it.
createEntryLocal_accountFirst(as, id, entry, f) ==
    LET r == updateAccountLocal(as, entry.accountId,
                                [currentBalance |-> entry.balance], f)
        list == getStoredEntries(r.w, entry.accountId, f = 3)
        newEntry == Merge([id |-> id], entry)
    IN IF r.err # "ok" THEN Result(r.w, r.err, None)
       ELSE IF f = 4 THEN Result(r.w, "StorageFailure", None)
       ELSE Result(saveEntries(r.w, entry.accountId, <<newEntry>> \o list), "ok", id)

\* Mutant: the account balance is recomputed from the date-descending head
\* instead of taking the caller's balance.
createEntryLocal_headBalance(as, id, entry, f) ==
    LET list == getStoredEntries(as, entry.accountId, f = 1)
        newEntry == Merge([id |-> id], entry)
        saved == saveEntries(as, entry.accountId, <<newEntry>> \o list)
        head == SortByDateDesc(<<newEntry>> \o list)[1]
    IN IF f = 2 THEN Result(as, "StorageFailure", None)
       ELSE LET r == updateAccountLocal(saved, entry.accountId,
                                        [currentBalance |-> head.balance], f - 2)
            IN Result(r.w, r.err, IF r.err = "ok" THEN id ELSE None)

\* Mutant: the entry write is rolled back when the account write fails.
createEntryLocal_rollsBack(as, id, entry, f) ==
    LET list == getStoredEntries(as, entry.accountId, f = 1)
        newEntry == Merge([id |-> id], entry)
        saved == saveEntries(as, entry.accountId, <<newEntry>> \o list)
    IN IF f = 2 THEN Result(as, "StorageFailure", None)
       ELSE LET r == updateAccountLocal(saved, entry.accountId,
                                        [currentBalance |-> entry.balance], f - 2)
            IN IF r.err = "ok" THEN Result(r.w, "ok", id)
               ELSE Result(as, r.err, None)

createEntryLocal(as, id, entry, f) ==
    LET list == getStoredEntries(as, entry.accountId, f = 1)
        newEntry == Merge([id |-> id], entry)
        saved == saveEntries(as, entry.accountId, <<newEntry>> \o list)
    IN IF f = 2 THEN Result(as, "StorageFailure", None)
       ELSE LET r == updateAccountLocal(saved, entry.accountId,
                                        [currentBalance |-> entry.balance], f - 2)
            IN Result(r.w, r.err, IF r.err = "ok" THEN id ELSE None)

\* Mutant: the update ripples through the entries stored before the edited
\* one in the list (the later entries).
updateEntryLocal_ripples(as, id, accountId, updates, f) ==
    LET list == getStoredEntries(as, accountId, f = 1)
        index == FindIndex(list, id)
        saved == saveEntries(as, accountId,
                             [i \in DOMAIN list |->
                                 IF i <= index THEN Merge(list[i], updates)
                                 ELSE list[i]])
    IN IF index = 0 THEN Result(as, "NotFound", None)
       ELSE IF f = 2 THEN Result(as, "StorageFailure", None)
       ELSE IF "balance" \in DOMAIN updates
            THEN updateAccountLocal(saved, accountId,
                                    [currentBalance |-> updates.balance], f - 2)
            ELSE Result(saved, "ok", None)

\* Mutant: the balance of the merged entry is written to the account whether
\* or not the updates carry a balance.
updateEntryLocal_alwaysPropagates(as, id, accountId, updates, f) ==
    LET list == getStoredEntries(as, accountId, f = 1)
        index == FindIndex(list, id)
        saved == saveEntries(as, accountId, [list EXCEPT ![index] = Merge(@, updates)])
    IN IF index = 0 THEN Result(as, "NotFound", None)
       ELSE IF f = 2 THEN Result(as, "StorageFailure", None)
       ELSE updateAccountLocal(saved, accountId,
                [currentBalance |-> Merge(list[index], updates).balance], f - 2)

\* Mutant: the balance of an update is applied to the account before the
\* entry is looked up.
updateEntryLocal_balanceFirst(as, id, accountId, updates, f) ==
    LET list == getStoredEntries(as, accountId, f = 1)
        index == FindIndex(list, id)
        saved == saveEntries(as, accountId, [list EXCEPT ![index] = Merge(@, updates)])
    IN IF index = 0
       THEN IF "balance" \in DOMAIN updates
            THEN Result(updateAccountLocal(as, accountId,
                                           [currentBalance |-> updates.balance], f - 2).w,
                        "NotFound", None)
            ELSE Result(as, "NotFound", None)
       ELSE IF f = 2 THEN Result(as, "StorageFailure", None)
       ELSE IF "balance" \in DOMAIN updates
            THEN updateAccountLocal(saved, accountId,
                                    [currentBalance |-> updates.balance], f - 2)
            ELSE Result(saved, "ok", None)

updateEntryLocal(as, id, accountId, updates, f) ==
    LET list == getStoredEntries(as, accountId, f = 1)
        index == FindIndex(list, id)
        saved == saveEntries(as, accountId, [list EXCEPT ![index] = Merge(@, updates)])
    IN IF index = 0 THEN Result(as, "NotFound", None)
       ELSE IF f = 2 THEN Result(as, "StorageFailure", None)
       ELSE IF "balance" \in DOMAIN updates
            THEN updateAccountLocal(saved, accountId,
                                    [currentBalance |-> updates.balance], f - 2)
            ELSE Result(saved, "ok", None)

\* Mutant: the backend recomputes the account balance itself, from the first
\* remaining entry of the list.
deleteEntryLocal_recomputes(as, id, accountId, f) ==
    LET list == getStoredEntries(as, accountId, f = 1)
        filtered == FilterOutId(list, id)
        saved == saveEntries(as, accountId, filtered)
    IN IF f = 2 THEN Result(as, "StorageFailure", None)
       ELSE IF FindIndex(as.accounts, accountId) = 0 THEN Result(saved, "ok", None)
       ELSE updateAccountLocal(saved, accountId,
                [currentBalance |->
                    IF filtered # <<>> THEN filtered[1].balance
                    ELSE as.accounts[FindIndex(as.accounts, accountId)].initialBalance],
                f - 2)

deleteEntryLocal(as, id, accountId, f) ==
    LET list == getStoredEntries(as, accountId, f = 1)
        filtered == FilterOutId(list, id)
    IN IF f = 2 THEN Result(as, "StorageFailure", None)
       ELSE Result(saveEntries(as, accountId, filtered), "ok", None)

\* Mutant: the stored list is returned in its on-disk order.
getEntriesByAccountLocal_unsorted(as, accountId, f) ==
    Result(as, "ok", getStoredEntries(as, accountId, f = 1))

getEntriesByAccountLocal(as, accountId, f) ==
    Result(as, "ok", SortByDateDesc(getStoredEntries(as, accountId, f = 1)))

----------------------------------------------------------------------------
(* Remote variant: api/accounts.api and api/entries.api over Firestore.    *)
(* fs = [accounts |-> the documents of collection accounts,                *)
(*       entries  |-> the documents of collection entries]                 *)
(* Firestore semantics used: updateDoc rejects with not-found when the     *)
(* document does not exist; deleteDoc of a missing document resolves; a    *)
(* query ordered by one field breaks ties by document id in the direction  *)
(* of that ordering.                                                       *)

HasDoc(docs, id) == \E d \in docs : d.id = id

DocOf(docs, id) == CHOOSE d \in docs : d.id = id

\* updateDoc(doc(db, collection, id), updates)
UpdateDoc(docs, id, updates) ==
    {IF d.id = id THEN Merge(d, updates) ELSE d : d \in docs}

\* deleteDoc(doc(db, collection, id))
DeleteDoc(docs, id) == {d \in docs : d.id # id}

FirebaseAccounts_createAccount(fs, id, acct, f) ==
    LET newAccount == Merge(Merge([id |-> id], acct),
                            [currentBalance |-> acct.initialBalance])
    IN IF f = 1 THEN Result(fs, "StorageFailure", None)
       ELSE Result([fs EXCEPT !.accounts = @ \cup {newAccount}], "ok", id)

FirebaseAccounts_updateAccount(fs, id, updates, f) ==
    IF f = 1 THEN Result(fs, "StorageFailure", None)
    ELSE IF ~HasDoc(fs.accounts, id) THEN Result(fs, "NotFound", None)
    ELSE Result([fs EXCEPT !.accounts = UpdateDoc(@, id, updates)], "ok", None)

\* The k-th smallest id of a set of documents (the order in which the
\* snapshot lists them).
RECURSIVE KthId(_, _)
KthId(ids, k) ==
    LET m == CHOOSE x \in ids : \A y \in ids : x <= y
    IN IF k = 1 THEN m ELSE KthId(ids \ {m}, k - 1)

\* Mutant: the entries are deleted first, the account document last.
FirebaseAccounts_deleteAccount_entriesFirst(fs, id, f) ==
    LET matching == {d.id : d \in {e \in fs.entries : e.accountId = id}}
        kept == IF f >= 2 /\ f - 1 <= Cardinality(matching)
                THEN {KthId(matching, f - 1)} ELSE {}
        swept == [fs EXCEPT !.entries = {e \in @ : e.id \notin matching \ kept}]
    IN IF f = 1 THEN Result(fs, "StorageFailure", None)
       ELSE IF kept # {} THEN Result(swept, "StorageFailure", None)
       ELSE IF f = Cardinality(matching) + 2 THEN Result(swept, "StorageFailure", None)
       ELSE Result([swept EXCEPT !.accounts = DeleteDoc(@, id)], "ok", None)

FirebaseAccounts_deleteAccount(fs, id, f) ==
    LET gone == [fs EXCEPT !.accounts = DeleteDoc(@, id)]
        matching == {d.id : d \in {e \in fs.entries : e.accountId = id}}
        \* Promise.all(deletePromises): every deleteDoc is issued; the one
        \* that the medium fails (access f, the (f - 2)-th) leaves its document.
        kept == IF f >= 3 /\ f - 2 <= Cardinality(matching)
                THEN {KthId(matching, f - 2)} ELSE {}
        swept == [gone EXCEPT !.entries = {e \in @ : e.id \notin matching \ kept}]
    IN IF f = 1 THEN Result(fs, "StorageFailure", None)
       ELSE IF f = 2 THEN Result(gone, "StorageFailure", None)
       ELSE Result(swept, IF kept = {} THEN "ok" ELSE "StorageFailure", None)

\* getDocs(collection): documents in document-id order.
RECURSIVE DocsById(_)
DocsById(docs) ==
    IF docs = {} THEN <<>>
    ELSE LET d == CHOOSE x \in docs : \A y \in docs : x.id <= y.id
         IN <<d>> \o DocsById(docs \ {d})

FirebaseAccounts_getAllAccounts(fs, f) ==
    IF f = 1 THEN Result(fs, "StorageFailure", None)
    ELSE Result(fs, "ok", DocsById(fs.accounts))

\* try { getDoc ... } catch { return null }
FirebaseAccounts_getAccountById(fs, id, f) ==
    IF f = 1 \/ ~HasDoc(fs.accounts, id) THEN Result(fs, "ok", None)
    ELSE Result(fs, "ok", DocOf(fs.accounts, id))

FirebaseEntries_createEntry(fs, id, entry, f) ==
    LET added == [fs EXCEPT !.entries = @ \cup {Merge([id |-> id], entry)}]
    IN IF f = 1 THEN Result(fs, "StorageFailure", None)
       ELSE LET r == FirebaseAccounts_updateAccount(added, entry.accountId,
                                        [currentBalance |-> entry.balance], f - 1)
            IN Result(r.w, r.err, IF r.err = "ok" THEN id ELSE None)

FirebaseEntries_updateEntry(fs, id, updates, f) ==
    LET updated == [fs EXCEPT !.entries = UpdateDoc(@, id, updates)]
    IN IF f = 1 THEN Result(fs, "StorageFailure", None)
       ELSE IF ~HasDoc(fs.entries, id) THEN Result(fs, "NotFound", None)
       ELSE IF /\ "balance" \in DOMAIN updates
               /\ "accountId" \in DOMAIN updates /\ ~Missing(updates.accountId)
            THEN FirebaseAccounts_updateAccount(updated, updates.accountId,
                                        [currentBalance |-> updates.balance], f - 1)
            ELSE Result(updated, "ok", None)

FirebaseEntries_deleteEntry(fs, id, f) ==
    IF f = 1 THEN Result(fs, "StorageFailure", None)
    ELSE Result([fs EXCEPT !.entries = DeleteDoc(@, id)], "ok", None)

\* query(where('accountId', '==', accountId), orderBy('date', 'desc'))
RECURSIVE OrderByDateDesc(_)
OrderByDateDesc(docs) ==
    IF docs = {} THEN <<>>
    ELSE LET d == CHOOSE x \in docs : \A y \in docs :
                      \/ x.date > y.date
                      \/ x.date = y.date /\ x.id >= y.id
         IN <<d>> \o OrderByDateDesc(docs \ {d})

FirebaseEntries_getEntriesByAccount(fs, accountId, f) ==
    IF f = 1 THEN Result(fs, "StorageFailure", None)
    ELSE Result(fs, "ok", OrderByDateDesc({e \in fs.entries : e.accountId = accountId}))

----------------------------------------------------------------------------
(* The facade: api/accounts and api/entries dispatch on useLocal.          *)
(* w = [as |-> AsyncStorage, fs |-> Firestore]; ul is the useLocal flag.   *)

OnLocal(w, r) == Result([w EXCEPT !.as = r.w], r.err, r.val)

OnRemote(w, r) == Result([w EXCEPT !.fs = r.w], r.err, r.val)

createAccount(ul, w, id, acct, f) ==
    IF ul THEN OnLocal(w, createAccountLocal(w.as, id, acct, f))
    ELSE OnRemote(w, FirebaseAccounts_createAccount(w.fs, id, acct, f))

updateAccount(ul, w, id, updates, f) ==
    IF ul THEN OnLocal(w, updateAccountLocal(w.as, id, updates, f))
    ELSE OnRemote(w, FirebaseAccounts_updateAccount(w.fs, id, updates, f))

deleteAccount(ul, w, id, f) ==
    IF ul THEN OnLocal(w, deleteAccountLocal(w.as, id, f))
    ELSE OnRemote(w, FirebaseAccounts_deleteAccount(w.fs, id, f))

getAllAccounts(ul, w, f) ==
    IF ul THEN OnLocal(w, getAllAccountsLocal(w.as, f))
    ELSE OnRemote(w, FirebaseAccounts_getAllAccounts(w.fs, f))

getAccountById(ul, w, id, f) ==
    IF ul THEN OnLocal(w, getAccountByIdLocal(w.as, id, f))
    ELSE OnRemote(w, FirebaseAccounts_getAccountById(w.fs, id, f))

createEntry(ul, w, id, entry, f) ==
    IF ul THEN OnLocal(w, createEntryLocal(w.as, id, entry, f))
    ELSE OnRemote(w, FirebaseEntries_createEntry(w.fs, id, entry, f))

updateEntry(ul, w, id, updates, f) ==
    IF ul
    THEN IF "accountId" \notin DOMAIN updates \/ Missing(updates.accountId)
         THEN Result(w, "ValidationFailure", None)
         ELSE OnLocal(w, updateEntryLocal(w.as, id, updates.accountId, updates, f))
    ELSE OnRemote(w, FirebaseEntries_updateEntry(w.fs, id, updates, f))

\* Mutant: without accountId the local variant searches every stored list
\* instead of rejecting the call.
deleteEntry_searchesEveryList(ul, w, id, accountId, f) ==
    IF ul
    THEN IF Missing(accountId)
         THEN Result([w EXCEPT !.as.entries =
                          [a \in AccountIds |-> FilterOutId(@[a], id)]], "ok", None)
         ELSE OnLocal(w, deleteEntryLocal(w.as, id, accountId, f))
    ELSE OnRemote(w, FirebaseEntries_deleteEntry(w.fs, id, f))

deleteEntry(ul, w, id, accountId, f) ==
    IF ul
    THEN IF Missing(accountId)
         THEN Result(w, "ValidationFailure", None)
         ELSE OnLocal(w, deleteEntryLocal(w.as, id, accountId, f))
    ELSE OnRemote(w, FirebaseEntries_deleteEntry(w.fs, id, f))

getEntriesByAccount(ul, w, accountId, f) ==
    IF ul THEN OnLocal(w, getEntriesByAccountLocal(w.as, accountId, f))
    ELSE OnRemote(w, FirebaseEntries_getEntriesByAccount(w.fs, accountId, f))

----------------------------------------------------------------------------
(* DashboardScreen: the handlers that drive the protocol for one account.  *)

W == [as |-> asyncStorage, fs |-> firestore]

\* A failure of the medium during a handler: access `access` of the
\* handler's `call`-th facade call fails. NoFault: the medium answers.
NoFault == [call |-> 0, access |-> 0]

At(flt, call) == IF flt.call = call THEN flt.access ELSE 0

\* What loadEntries leaves in the entries and currentBalance states when it
\* runs against stores w; on a failure the catch leaves both as they are.
loadEntries(w, f) ==
    LET r == getEntriesByAccount(useLocal, w, account.id, f)
    IN IF r.err = "ok"
       THEN [entries |-> r.val,
             currentBalance |-> IF Len(r.val) > 0 THEN r.val[1].balance
                                ELSE account.initialBalance]
       ELSE [entries |-> entries, currentBalance |-> currentBalance]

\* The balance the account record holds in the active backend, and the
\* entries stored for the Dashboard's account, date descending.
\* (Read by the properties; the handlers go through the facade.)
StoredAccount(ul, w, id) == getAccountById(ul, w, id, 0).val

StoredEntries(ul, w, id) == getEntriesByAccount(ul, w, id, 0).val

HeadBalance(ul, w, acct) ==
    LET list == StoredEntries(ul, w, acct.id)
    IN IF Len(list) > 0 THEN list[1].balance ELSE acct.initialBalance

Done(op, id, err) ==
    [op |-> op, id |-> id, err |-> err,
     head |-> HeadBalance(useLocal, W, account),
     wasHead |-> LET list == StoredEntries(useLocal, W, account.id)
                 IN Len(list) > 0 /\ list[1].id = id]

\* The identifier a backend assigns: opaque and unused. The Dashboard never
\* compares identifiers and its entries never share a date, so the runs of
\* the Dashboard hand them out in increasing order.
Fresh(unused) == {id \in unused : \A other \in unused : id <= other}

\* useEffect(() => { loadEntries() }): the screen is (re)opened on the account.
Mount ==
    LET ld == loadEntries(W, 0)
    IN /\ entries' = ld.entries
       /\ currentBalance' = ld.currentBalance
       /\ selectedEntry' = None
       /\ editModalVisible' = FALSE
       /\ last' = Done("mount", None.id, "ok")
       /\ UNCHANGED <<pending, db, useLocal, accountsUseLocal, asyncStorage, firestore, now, usedIds, account>>

HandleCreateEntry(profitLoss, notes, flt) ==
    /\ ~editModalVisible
    /\ \E id \in Fresh(EntryIds \ usedIds.ent) :
         LET newBalance == currentBalance + profitLoss
             r == createEntry(useLocal, W, id,
                              [accountId |-> account.id, date |-> now + 1,
                               profitLoss |-> profitLoss, balance |-> newBalance,
                               notes |-> notes], At(flt, 1))
             ld == IF r.err = "ok" THEN loadEntries(r.w, At(flt, 2))
                   ELSE [entries |-> entries, currentBalance |-> currentBalance]
         IN /\ asyncStorage' = r.w.as
            /\ firestore' = r.w.fs
            /\ now' = now + 1
            /\ usedIds' = [usedIds EXCEPT !.ent = @ \cup {id}]
            /\ entries' = ld.entries
            /\ currentBalance' = ld.currentBalance
            /\ last' = Done("create", id, r.err)
    /\ UNCHANGED <<pending, db, useLocal, accountsUseLocal, account, selectedEntry, editModalVisible>>

\* Mutant: the neighbour on the wrong side (the newer entry) is taken.
PreviousBalance_newerNeighbour(list, entryIndex, acct) ==
    IF entryIndex > 1 THEN list[entryIndex - 1].balance
    ELSE acct.initialBalance

\* handleUpdateEntry: the balance the edited entry is rebuilt from, the
\* balance of the entry after it in the date-descending entries state.
PreviousBalance(list, entryIndex, acct) ==
    IF entryIndex < Len(list) THEN list[entryIndex + 1].balance
    ELSE acct.initialBalance

\* Mutant: the oldest remaining entry is taken instead of the head.
NewCurrentBalance_oldest(updatedEntries, acct) ==
    IF Len(updatedEntries) > 0 THEN updatedEntries[Len(updatedEntries)].balance
    ELSE acct.initialBalance

\* handleDeleteEntry: the balance written to the account after the re-read.
NewCurrentBalance(updatedEntries, acct) ==
    IF Len(updatedEntries) > 0 THEN updatedEntries[1].balance
    ELSE acct.initialBalance

HandleEditEntry(i) ==
    /\ ~editModalVisible
    /\ i \in DOMAIN entries
    /\ selectedEntry' = entries[i]
    /\ editModalVisible' = TRUE
    /\ last' = Done("edit", entries[i].id, "ok")
    /\ UNCHANGED <<pending, db, useLocal, accountsUseLocal, asyncStorage, firestore, now, usedIds, account,
                   entries, currentBalance>>

\* The close button of the edit modal: setEditModalVisible(false).
CloseEditModal ==
    /\ editModalVisible
    /\ editModalVisible' = FALSE
    /\ last' = Done("close", None.id, "ok")
    /\ UNCHANGED <<pending, db, useLocal, accountsUseLocal, asyncStorage, firestore, now, usedIds, account,
                   entries, currentBalance, selectedEntry>>

HandleUpdateEntry(profitLoss, notes, flt) ==
    /\ editModalVisible
    /\ selectedEntry # None
    /\ LET entryIndex == FindIndex(entries, selectedEntry.id)
           previousBalance == PreviousBalance(entries, entryIndex, account)
           newBalance == previousBalance + profitLoss
           r == updateEntry(useLocal, W, selectedEntry.id,
                            [accountId |-> account.id, profitLoss |-> profitLoss,
                             balance |-> newBalance, notes |-> notes], At(flt, 1))
           ld == IF r.err = "ok" THEN loadEntries(r.w, At(flt, 2))
                 ELSE [entries |-> entries, currentBalance |-> currentBalance]
       IN /\ asyncStorage' = r.w.as
          /\ firestore' = r.w.fs
          /\ entries' = ld.entries
          /\ currentBalance' = ld.currentBalance
          /\ selectedEntry' = IF r.err = "ok" THEN None ELSE selectedEntry
          /\ editModalVisible' = (r.err # "ok")
          /\ last' = Done("update", selectedEntry.id, r.err)
    /\ UNCHANGED <<pending, db, useLocal, accountsUseLocal, now, usedIds, account>>

HandleDeleteEntry(i, flt) ==
    /\ ~editModalVisible
    /\ i \in DOMAIN entries
    /\ LET entry == entries[i]
           r1 == deleteEntry(useLocal, W, entry.id, account.id, At(flt, 1))
           r2 == getEntriesByAccount(useLocal, r1.w, account.id, At(flt, 2))
           updatedEntries == r2.val
           newCurrentBalance == NewCurrentBalance(updatedEntries, account)
           r3 == updateAccount(accountsUseLocal, r2.w, account.id,
                               [currentBalance |-> newCurrentBalance], At(flt, 3))
       IN IF r1.err # "ok"
          THEN /\ asyncStorage' = r1.w.as /\ firestore' = r1.w.fs
               /\ entries' = entries
               /\ last' = Done("delete", entry.id, r1.err)
          ELSE IF r2.err # "ok"
          THEN /\ asyncStorage' = r2.w.as /\ firestore' = r2.w.fs
               /\ entries' = entries
               /\ last' = Done("delete", entry.id, r2.err)
          ELSE /\ asyncStorage' = r3.w.as /\ firestore' = r3.w.fs
               /\ entries' = updatedEntries
               /\ last' = Done("delete", entry.id, r3.err)
    /\ UNCHANGED <<pending, db, useLocal, accountsUseLocal, now, usedIds, account, currentBalance,
                   selectedEntry, editModalVisible>>

----------------------------------------------------------------------------
(* Spec: one account, opened in the Dashboard, on either backend; the      *)
(* medium answers every access.                                            *)

NoStorage == [accounts |-> <<>>, entries |-> [a \in AccountIds |-> <<>>]]

NoDocuments == [accounts |-> {}, entries |-> {}]

\* No call is in flight.
NoCalls == [issuedOn |-> NoStorage, run |-> <<>>]

Init ==
    \E d \in TypicalDbs, id \in Fresh(AccountIds), ib \in InitialBalances :
        LET ul == ~Accounts_isFirebaseConfigured(d)
            r == createAccount(ul, [as |-> NoStorage, fs |-> NoDocuments], id,
                               [name |-> "account", initialBalance |-> ib,
                                currency |-> "USD"], 0)
            acct == getAccountById(ul, r.w, id, 0).val
        IN /\ db = d
           /\ useLocal = ~Entries_isFirebaseConfigured(d)
           /\ accountsUseLocal = ul
           /\ asyncStorage = r.w.as
           /\ firestore = r.w.fs
           /\ now = 0
           /\ usedIds = [acc |-> {id}, ent |-> {}]
           /\ account = acct
           /\ entries = <<>>
           /\ currentBalance = acct.initialBalance
           /\ selectedEntry = None
           /\ editModalVisible = FALSE
           /\ pending = NoCalls
           /\ last = [op |-> "init", id |-> None.id, err |-> "ok",
                      head |-> acct.initialBalance, wasHead |-> FALSE]

Next ==
    \/ Mount
    \/ \E pl \in ProfitLosses, n \in DashboardNotes : HandleCreateEntry(pl, n, NoFault)
    \/ \E i \in EntryIds : HandleEditEntry(i)
    \/ CloseEditModal
    \/ \E pl \in ProfitLosses, n \in DashboardNotes : HandleUpdateEntry(pl, n, NoFault)
    \/ \E i \in EntryIds : HandleDeleteEntry(i, NoFault)

Spec == Init /\ [][Next]_vars

\* SpecCrash: the same screen over a medium that may fail one access of a
\* handler run; a failed handler followed by Mount is a crash and restart.
DashboardFaults ==
    {NoFault} \cup {[call |-> c, access |-> a] : c \in 1..3, a \in 1..MaxAccess}

\* What the user enters in the runs over a failing medium.
CrashProfitLosses == {100, -30}

NextCrash ==
    \/ Mount
    \/ \E pl \in CrashProfitLosses, n \in DashboardNotes, flt \in DashboardFaults :
           /\ Cardinality(usedIds.ent) < MaxCrashEntries
           /\ HandleCreateEntry(pl, n, flt)
    \/ \E i \in EntryIds : HandleEditEntry(i)
    \/ CloseEditModal
    \/ \E pl \in CrashProfitLosses, n \in DashboardNotes, flt \in DashboardFaults :
           HandleUpdateEntry(pl, n, flt)
    \/ \E i \in EntryIds, flt \in DashboardFaults : HandleDeleteEntry(i, flt)

SpecCrash == Init /\ [][NextCrash]_vars

----------------------------------------------------------------------------
(* Properties of the Dashboard protocol (Spec).                            *)
(* Every state of Spec is a quiescent point: a handler runs to its end in  *)
(* one step.                                                               *)

\* The account record and the entries the active backend stores for the
\* Dashboard's account, the entries date descending.
Stored == StoredAccount(useLocal, W, account.id)

Sorted == StoredEntries(useLocal, W, account.id)

RECURSIVE SumProfitLoss(_)
SumProfitLoss(list) ==
    IF list = <<>> THEN 0 ELSE Head(list).profitLoss + SumProfitLoss(Tail(list))

\* C1: at every quiescent point the stored currentBalance is the balance of
\* the date-descending head entry, or initialBalance when there is no entry.
C1_BalanceIsHeadBalance ==
    Stored.currentBalance = HeadBalance(useLocal, W, account)

\* C2: at every quiescent point the stored currentBalance is initialBalance
\* plus the sum of profitLoss over the stored entries of the account.
C2_BalanceIsSumOfProfitLoss ==
    Stored.currentBalance = Stored.initialBalance + SumProfitLoss(Sorted)

\* C3: an entry created by handleCreateEntry gets the balance of the head
\* entry that existed just before the create (initialBalance if none) plus
\* its profitLoss, and currentBalance is set to that value.
C3_CreateBuildsOnHead ==
    (last.op = "create" /\ last.err = "ok") =>
        LET e == Sorted[FindIndex(Sorted, last.id)]
        IN /\ e.balance = last.head + e.profitLoss
           /\ Stored.currentBalance = e.balance

\* C4: editing the profitLoss of an entry that is not the head leaves the
\* stored currentBalance of the account unchanged.
C4_NonHeadEditKeepsBalance ==
    [][(last'.op = "update" /\ last'.err = "ok" /\ ~last'.wasHead)
          => Stored'.currentBalance = Stored.currentBalance]_vars

\* C5: after the delete protocol completes (deleteEntry, re-read,
\* updateAccount) the stored currentBalance is the balance of the head of the
\* remaining date-descending entries, or initialBalance if none remain.
C5_DeleteRecomputesFromHead ==
    (last.op = "delete" /\ last.err = "ok") =>
        Stored.currentBalance = HeadBalance(useLocal, W, account)

\* The head of balances 1100, 1070, 1120 was deleted: currentBalance 1070.
C5_Witness ==
    /\ last.op = "delete" /\ last.err = "ok" /\ last.wasHead
    /\ last.head = 1120
    /\ Len(Sorted) = 2 /\ Sorted[1].balance = 1070 /\ Sorted[2].balance = 1100
    /\ Stored.currentBalance = 1070

\* C6: after an entry update the edited entry's stored balance is the
\* balance of the entry immediately older than it in date order plus the new
\* profitLoss (initialBalance plus the new profitLoss when it is the
\* oldest); when the edited entry is the head, currentBalance is that value.
C6_UpdateBuildsOnPredecessor ==
    (last.op = "update" /\ last.err = "ok") =>
        LET i == FindIndex(Sorted, last.id)
            e == Sorted[i]
            predecessor == IF i < Len(Sorted) THEN Sorted[i + 1].balance
                           ELSE Stored.initialBalance
        IN /\ i > 0
           /\ e.balance = predecessor + e.profitLoss
           /\ (i = 1 => Stored.currentBalance = e.balance)

\* The middle one of three entries was edited to a new profitLoss.
C6_Witness ==
    /\ last.op = "update" /\ last.err = "ok"
    /\ Len(Sorted) = 3 /\ FindIndex(Sorted, last.id) = 2
    /\ Sorted[3].balance = 1100 /\ Sorted[2].profitLoss = 50
    /\ Sorted[2].balance = 1150 /\ Sorted[1].balance = 1120

----------------------------------------------------------------------------
(* A caller drives the facade with arbitrary arguments.                    *)
(* SpecFacade: the process runs on the variant useLocal selects.           *)
(* SpecEquiv: every call is made against the local variant (on             *)
(* asyncStorage) and against the remote variant (on firestore), with the   *)
(* same arguments and the same assigned identifier.                        *)
(* SpecFault: the process runs on the variant useLocal selects and the     *)
(* medium may fail one access of a call.                                   *)
(* SpecSelect: the process runs on the variant each facade selects, under  *)
(* any configuration of db.                                                *)
(* `now` counts the calls of a run whose length is bounded.                *)

NotRun == [err |-> "not run", val |-> None]

\* Every entry a variant persists, and those persisted for one account id
\* (whether or not an account record with that id exists).
AllEntries(ul, w) ==
    IF ul THEN UNION {Range(w.as.entries[a]) : a \in AccountIds} ELSE w.fs.entries

EntriesUnder(ul, w, accountId) == {e \in AllEntries(ul, w) : e.accountId = accountId}

AllAccounts(ul, w) == IF ul THEN Range(w.as.accounts) ELSE w.fs.accounts

Exists(ul, w, accountId) == \E a \in AllAccounts(ul, w) : a.id = accountId

Outcome(r) == [err |-> r.err, val |-> r.val]

\* The kinds of run: on the selected variant, on both variants side by side,
\* on the selected variant over a failing medium, on the variant selected
\* under any configuration. faults: the accesses of a
\* call that the medium may fail (0: none); calls: the length of the run
\* (-1: any).
Selected == [both |-> FALSE, faults |-> {0}, calls |-> -1]

SideBySide == [both |-> TRUE, faults |-> {0}, calls |-> MaxCalls]

Failing == [both |-> FALSE, faults |-> 0..MaxFault, calls |-> MaxFaultCalls]

Probing == [both |-> FALSE, faults |-> {0}, calls |-> MaxProbeCalls]

\* The operations of the accounts facade; the others are of the entries facade.
AccountsOps ==
    {"createAccount", "updateAccount", "deleteAccount", "getAllAccounts", "getAccountById"}

\* One facade call with argument `input`, rl its result on the Local variant
\* and rr on the Firebase variant, f the access the medium fails. The call
\* dispatches on the flag of the facade the operation belongs to.
Call(run, f, op, id, accountId, input, rl, rr) ==
    LET ul == IF op \in AccountsOps THEN accountsUseLocal ELSE useLocal IN
    /\ run.calls >= 0 => now < run.calls
    /\ now' = IF run.calls >= 0 THEN now + 1 ELSE now
    /\ asyncStorage' = IF run.both \/ ul THEN rl.w.as ELSE asyncStorage
    /\ firestore' = IF run.both \/ ~ul THEN rr.w.fs ELSE firestore
    /\ last' = [op |-> op, id |-> id, accountId |-> accountId,
                input |-> input, fault |-> f,
                local |-> IF run.both \/ ul THEN Outcome(rl) ELSE NotRun,
                remote |-> IF run.both \/ ~ul THEN Outcome(rr) ELSE NotRun,
                existed |-> ~Missing(accountId) /\ Exists(useLocal, W, accountId),
                had |-> IF Missing(accountId) THEN 0
                        ELSE Cardinality(EntriesUnder(useLocal, W, accountId))]
    /\ UNCHANGED <<pending, db, useLocal, accountsUseLocal, ui>>

AccountUpdates == {[currentBalance |-> b] : b \in UpdatedBalances}

EntryUpdates ==
    {[balance |-> b] : b \in UpdatedBalances}
    \cup {[accountId |-> a, date |-> d] : a \in AccountIds, d \in Dates}
    \cup {[accountId |-> a, balance |-> b] : a \in AccountIds, b \in UpdatedBalances}

FacadeCreateAccount(run, f, ib) ==
    \E id \in AccountIds \ usedIds.acc :
        LET acct == [name |-> "account", initialBalance |-> ib, currency |-> "USD"]
        IN /\ Call(run, f, "createAccount", id, id, acct,
                   createAccount(TRUE, W, id, acct, f),
                   createAccount(FALSE, W, id, acct, f))
           /\ usedIds' = [usedIds EXCEPT !.acc = @ \cup {id}]

FacadeUpdateAccount(run, f, id, updates) ==
    /\ Call(run, f, "updateAccount", id, id, updates,
            updateAccount(TRUE, W, id, updates, f),
            updateAccount(FALSE, W, id, updates, f))
    /\ UNCHANGED usedIds

FacadeDeleteAccount(run, f, id) ==
    /\ Call(run, f, "deleteAccount", id, id, None,
            deleteAccount(TRUE, W, id, f),
            deleteAccount(FALSE, W, id, f))
    /\ UNCHANGED usedIds

FacadeGetAllAccounts(run, f) ==
    /\ Call(run, f, "getAllAccounts", None.id, None.id, None,
            getAllAccounts(TRUE, W, f),
            getAllAccounts(FALSE, W, f))
    /\ UNCHANGED usedIds

FacadeGetAccountById(run, f, id) ==
    /\ Call(run, f, "getAccountById", id, id, None,
            getAccountById(TRUE, W, id, f),
            getAccountById(FALSE, W, id, f))
    /\ UNCHANGED usedIds

FacadeCreateEntry(run, f, accountId, date, profitLoss, balance) ==
    \E id \in FacadeEntryIds \ usedIds.ent :
        LET entry == [accountId |-> accountId, date |-> date,
                      profitLoss |-> profitLoss, balance |-> balance,
                      notes |-> "undefined"]
        IN /\ Call(run, f, "createEntry", id, accountId, entry,
                   createEntry(TRUE, W, id, entry, f),
                   createEntry(FALSE, W, id, entry, f))
           /\ usedIds' = [usedIds EXCEPT !.ent = @ \cup {id}]

FacadeUpdateEntry(run, f, id, updates) ==
    /\ Call(run, f, "updateEntry", id,
            IF "accountId" \in DOMAIN updates THEN updates.accountId ELSE None.id,
            updates,
            updateEntry(TRUE, W, id, updates, f),
            updateEntry(FALSE, W, id, updates, f))
    /\ UNCHANGED usedIds

FacadeDeleteEntry(run, f, id, accountId) ==
    /\ Call(run, f, "deleteEntry", id, accountId, None,
            deleteEntry(TRUE, W, id, accountId, f),
            deleteEntry(FALSE, W, id, accountId, f))
    /\ UNCHANGED usedIds

FacadeGetEntriesByAccount(run, f, accountId) ==
    /\ Call(run, f, "getEntriesByAccount", None.id, accountId, None,
            getEntriesByAccount(TRUE, W, accountId, f),
            getEntriesByAccount(FALSE, W, accountId, f))
    /\ UNCHANGED usedIds

\* Module load under a configuration of dbs: each facade probes db once.
Loaded(dbs) ==
    /\ db \in dbs
    /\ useLocal = ~Entries_isFirebaseConfigured(db)
    /\ accountsUseLocal = ~Accounts_isFirebaseConfigured(db)

Stores ==
    /\ asyncStorage = NoStorage
    /\ firestore = NoDocuments
    /\ now = 0
    /\ usedIds = [acc |-> {}, ent |-> {}]
    /\ account = None
    /\ entries = <<>>
    /\ currentBalance = 0
    /\ selectedEntry = None
    /\ editModalVisible = FALSE
    /\ pending = NoCalls
    /\ last = [op |-> "init", id |-> None.id, accountId |-> None.id,
               input |-> None, fault |-> 0,
               local |-> NotRun, remote |-> NotRun, existed |-> FALSE, had |-> 0]

InitFacade == Loaded(TypicalDbs) /\ Stores

InitSelect == Loaded(Dbs) /\ Stores

Facade(run) ==
    \E f \in run.faults :
        \/ \E ib \in InitialBalances : FacadeCreateAccount(run, f, ib)
        \/ \E id \in AccountIds, u \in AccountUpdates : FacadeUpdateAccount(run, f, id, u)
        \/ \E id \in AccountIds : FacadeDeleteAccount(run, f, id)
        \/ FacadeGetAllAccounts(run, f)
        \/ \E id \in AccountIds : FacadeGetAccountById(run, f, id)
        \/ \E a \in AccountIds, d \in Dates, b \in CreatedBalances, ib \in InitialBalances :
               FacadeCreateEntry(run, f, a, d, b - ib, b)
        \/ \E id \in FacadeEntryIds, u \in EntryUpdates : FacadeUpdateEntry(run, f, id, u)
        \/ \E id \in FacadeEntryIds, a \in AccountIds \cup {None.id} :
               FacadeDeleteEntry(run, f, id, a)
        \/ \E a \in AccountIds : FacadeGetEntriesByAccount(run, f, a)

NextFacade == Facade(Selected)

SpecFacade == InitFacade /\ [][NextFacade]_vars

InitEquiv == InitFacade /\ useLocal

NextEquiv == Facade(SideBySide)

SpecEquiv == InitEquiv /\ [][NextEquiv]_vars

NextFault == Facade(Failing)

SpecFault == InitFacade /\ [][NextFault]_vars

NextSelect == Facade(Probing)

SpecSelect == InitSelect /\ [][NextSelect]_vars

----------------------------------------------------------------------------
(* SpecInterleave: the local variant. After some calls that ran one by one, *)
(* two calls are issued for two different accounts without awaiting the     *)
(* first. A call is suspended at every await of AsyncStorage.getItem /      *)
(* setItem, and the other call may run in between: each step below is one   *)
(* access of the store together with the synchronous code that follows it.  *)

Setup == [both |-> FALSE, faults |-> {0}, calls |-> MaxSetupCalls]

\* The calls a caller can issue for account a.
LocalCalls(a) ==
    {[op |-> "updateAccount", accountId |-> a, id |-> a, input |-> u] :
        u \in AccountUpdates}
    \cup {[op |-> "createEntry", accountId |-> a, id |-> id,
           input |-> [accountId |-> a, date |-> d, profitLoss |-> b - ib,
                      balance |-> b, notes |-> "undefined"]] :
            id \in FacadeEntryIds, d \in Dates, b \in CreatedBalances,
            ib \in InitialBalances}
    \cup {[op |-> "updateEntry", accountId |-> a, id |-> id, input |-> u] :
            id \in FacadeEntryIds,
            u \in {x \in EntryUpdates : "accountId" \in DOMAIN x /\ x.accountId = a}}
    \cup {[op |-> "deleteEntry", accountId |-> a, id |-> id, input |-> None] :
            id \in FacadeEntryIds}

\* The call at its first await, with nothing read yet.
Started(c) ==
    Merge(c, [pc |-> IF c.op = "updateAccount" THEN "getAccounts" ELSE "getEntries",
              list |-> <<>>, accounts |-> <<>>, err |-> "ok"])

\* The call run from its first to its last statement with no other call in
\* between.
Alone(as, c) ==
    CASE c.op = "updateAccount" -> updateAccountLocal(as, c.accountId, c.input, 0).w
      [] c.op = "createEntry" -> createEntryLocal(as, c.id, c.input, 0).w
      [] c.op = "updateEntry" -> updateEntryLocal(as, c.id, c.accountId, c.input, 0).w
      [] c.op = "deleteEntry" -> deleteEntryLocal(as, c.id, c.accountId, 0).w

Idle == pending.run = <<>>

AllDone == ~Idle /\ \A i \in DOMAIN pending.run : pending.run[i].pc = "done"

Issue(c1, c2) ==
    LET created == {c.id : c \in {x \in {c1, c2} : x.op = "createEntry"}} IN
    /\ Idle
    /\ useLocal /\ accountsUseLocal
    /\ c1.accountId # c2.accountId
    /\ created \cap usedIds.ent = {}
    /\ (c1.op = "createEntry" /\ c2.op = "createEntry") => c1.id # c2.id
    /\ pending' = [issuedOn |-> asyncStorage, run |-> <<Started(c1), Started(c2)>>]
    /\ usedIds' = [usedIds EXCEPT !.ent = @ \cup created]
    /\ UNCHANGED <<db, useLocal, accountsUseLocal, asyncStorage, firestore, now, ui, last>>

\* await getStoredEntries(accountId), then findIndex and the not-found throw
\* of updateEntryLocal.
GetEntries(i) ==
    /\ i \in DOMAIN pending.run
    /\ pending.run[i].pc = "getEntries"
    /\ LET c == pending.run[i]
           list == getStoredEntries(asyncStorage, c.accountId, FALSE)
           missing == c.op = "updateEntry" /\ FindIndex(list, c.id) = 0
       IN pending' = [pending EXCEPT !.run[i] =
                        Merge(c, [list |-> list,
                                  pc |-> IF missing THEN "done" ELSE "setEntries",
                                  err |-> IF missing THEN "NotFound" ELSE "ok"])]
    /\ UNCHANGED <<db, useLocal, accountsUseLocal, asyncStorage, firestore, now,
                   usedIds, ui, last>>

\* await saveEntries(accountId, entries) with the list the call has read.
SetEntries(i) ==
    /\ i \in DOMAIN pending.run
    /\ pending.run[i].pc = "setEntries"
    /\ LET c == pending.run[i]
           index == FindIndex(c.list, c.id)
           list == CASE c.op = "createEntry" ->
                            <<Merge([id |-> c.id], c.input)>> \o c.list
                     [] c.op = "updateEntry" ->
                            [c.list EXCEPT ![index] = Merge(@, c.input)]
                     [] c.op = "deleteEntry" -> FilterOutId(c.list, c.id)
           propagates == \/ c.op = "createEntry"
                         \/ c.op = "updateEntry" /\ "balance" \in DOMAIN c.input
       IN /\ asyncStorage' = saveEntries(asyncStorage, c.accountId, list)
          /\ pending' = [pending EXCEPT !.run[i].pc =
                           IF propagates THEN "getAccounts" ELSE "done"]
    /\ UNCHANGED <<db, useLocal, accountsUseLocal, firestore, now, usedIds, ui, last>>

\* updateAccountLocal: await getStoredAccounts(), then findIndex and the
\* not-found throw.
GetAccounts(i) ==
    /\ i \in DOMAIN pending.run
    /\ pending.run[i].pc = "getAccounts"
    /\ LET c == pending.run[i]
           accounts == getStoredAccounts(asyncStorage, FALSE)
           missing == FindIndex(accounts, c.accountId) = 0
       IN pending' = [pending EXCEPT !.run[i] =
                        Merge(c, [accounts |-> accounts,
                                  pc |-> IF missing THEN "done" ELSE "setAccounts",
                                  err |-> IF missing THEN "NotFound" ELSE "ok"])]
    /\ UNCHANGED <<db, useLocal, accountsUseLocal, asyncStorage, firestore, now,
                   usedIds, ui, last>>

\* updateAccountLocal: await saveAccounts(accounts) with the list the call
\* has read.
SetAccounts(i) ==
    /\ i \in DOMAIN pending.run
    /\ pending.run[i].pc = "setAccounts"
    /\ LET c == pending.run[i]
           index == FindIndex(c.accounts, c.accountId)
           updates == IF c.op = "updateAccount" THEN c.input
                      ELSE [currentBalance |-> c.input.balance]
       IN /\ asyncStorage' = saveAccounts(asyncStorage,
                                [c.accounts EXCEPT ![index] = Merge(@, updates)])
          /\ pending' = [pending EXCEPT !.run[i].pc = "done"]
    /\ UNCHANGED <<db, useLocal, accountsUseLocal, firestore, now, usedIds, ui, last>>

InitInterleave == InitFacade /\ useLocal /\ accountsUseLocal

NextInterleave ==
    \/ Idle /\ \E ib \in InitialBalances : FacadeCreateAccount(Setup, 0, ib)
    \/ Idle /\ \E a \in AccountIds, d \in Dates, b \in CreatedBalances,
                  ib \in InitialBalances :
                   FacadeCreateEntry(Setup, 0, a, d, b - ib, b)
    \/ \E a1, a2 \in AccountIds : \E c1 \in LocalCalls(a1), c2 \in LocalCalls(a2) :
           Issue(c1, c2)
    \/ \E i \in 1..2 : GetEntries(i)
    \/ \E i \in 1..2 : SetEntries(i)
    \/ \E i \in 1..2 : GetAccounts(i)
    \/ \E i \in 1..2 : SetAccounts(i)

SpecInterleave == InitInterleave /\ [][NextInterleave]_vars

----------------------------------------------------------------------------
(* Properties of the facade operations (SpecFacade, SpecEquiv).            *)

\* The outcome of the last call on the variant the process runs on.
Active == IF useLocal THEN last.local ELSE last.remote

\* C7: an entry update changes no field of any other entry: every entry
\* other than the edited one is stored after updateEntry exactly as before
\* (no ripple through later entries), on the backend selected.
C7_UpdateTouchesOneEntry ==
    [][last'.op = "updateEntry" =>
          /\ {e \in AllEntries(useLocal, W)' : e.id # last'.id}
               = {e \in AllEntries(useLocal, W) : e.id # last'.id}
          /\ \A a \in AccountIds :
               FilterOutId(asyncStorage'.entries[a], last'.id)
                 = FilterOutId(asyncStorage.entries[a], last'.id)]_vars

\* An entry was given a new balance while a later entry of the same account
\* is stored.
C7_Witness ==
    /\ last.op = "updateEntry" /\ Active.err = "ok"
    /\ \E e \in AllEntries(useLocal, W), later \in AllEntries(useLocal, W) :
          /\ e.id = last.id /\ e.balance \in UpdatedBalances
          /\ later.id # e.id /\ later.accountId = e.accountId
          /\ later.date > e.date /\ later.balance \in CreatedBalances

\* C8: after deleteAccount(id) completes no entry whose accountId is id
\* remains, and getEntriesByAccount(id) returns the empty sequence.
C8_DeleteAccountCascades ==
    (last.op = "deleteAccount" /\ Active.err = "ok") =>
        /\ EntriesUnder(useLocal, W, last.id) = {}
        /\ getEntriesByAccount(useLocal, W, last.id, 0).err = "ok"
        /\ getEntriesByAccount(useLocal, W, last.id, 0).val = <<>>

\* An existing account that had an entry was deleted, while an entry of
\* another account is stored.
C8_Witness ==
    /\ last.op = "deleteAccount" /\ Active.err = "ok"
    /\ last.existed /\ last.had = 1
    /\ AllEntries(useLocal, W) # {}

\* C9 as claimed: deleteAccount on an id that has no account record returns
\* without error and leaves the persisted accounts and entries as they were.
C9_DeleteMissingChangesNothing ==
    [][(last'.op = "deleteAccount" /\ ~last'.existed) =>
          /\ Active'.err = "ok"
          /\ AllAccounts(useLocal, W)' = AllAccounts(useLocal, W)
          /\ AllEntries(useLocal, W)' = AllEntries(useLocal, W)]_vars

\* C9 as amended: deleteAccount on an id that has no account record returns
\* without error, leaves the persisted accounts and every entry stored under
\* another account id as they were, and removes the entries stored under
\* that id; a second call on the same id changes nothing.
C9_DeleteMissingRemovesOnlyOrphans ==
    [][(last'.op = "deleteAccount" /\ ~last'.existed) =>
          /\ Active'.err = "ok"
          /\ asyncStorage'.accounts = asyncStorage.accounts
          /\ firestore'.accounts = firestore.accounts
          /\ AllEntries(useLocal, W)'
               = AllEntries(useLocal, W) \ EntriesUnder(useLocal, W, last'.id)
          /\ (last.op = "deleteAccount" /\ last.id = last'.id) =>
               (asyncStorage' = asyncStorage /\ firestore' = firestore)]_vars

\* deleteAccount ran on an id without account record under which an entry
\* was stored, while an account and an entry of another id are stored.
C9_Witness ==
    /\ last.op = "deleteAccount" /\ Active.err = "ok"
    /\ ~last.existed /\ last.had = 1
    /\ AllAccounts(useLocal, W) # {}
    /\ AllEntries(useLocal, W) # {}

\* C10: the same call on the local and on the remote variant gives the same
\* result (value or failure) and leaves the same accounts and entries.
SameValue ==
    IF last.op = "getAllAccounts"
    THEN Range(last.local.val) = Range(last.remote.val)
    ELSE last.local.val = last.remote.val

C10_VariantsAgree ==
    /\ (last.local.err = "ok") <=> (last.remote.err = "ok")
    /\ (last.local.err = "ok" /\ last.remote.err = "ok") => SameValue
    /\ AllAccounts(TRUE, W) = AllAccounts(FALSE, W)
    /\ AllEntries(TRUE, W) = AllEntries(FALSE, W)

\* C11: createAccount(input), on either backend, persists a new account whose
\* currentBalance is input.initialBalance and returns the id of that account,
\* which a following getAccountById resolves to the new account.
C11_CreateAccountPersists ==
    (last.op = "createAccount" /\ Active.err = "ok") =>
        LET r == getAccountById(useLocal, W, Active.val, 0)
        IN /\ r.err = "ok"
           /\ r.val \in AllAccounts(useLocal, W)
           /\ r.val.id = Active.val
           /\ r.val.currentBalance = last.input.initialBalance
           /\ \A k \in DOMAIN last.input : r.val[k] = last.input[k]
           /\ Cardinality({a \in AllAccounts(useLocal, W) : a.id = Active.val}) = 1

\* A second account was created after the balance of the first one moved.
C11_Witness ==
    /\ last.op = "createAccount" /\ Active.err = "ok"
    /\ \E a \in AllAccounts(useLocal, W) :
          a.id # Active.val /\ a.currentBalance \in UpdatedBalances

\* C12: createEntry(input) only applies the caller's balance: after it
\* completes successfully the stored entry's balance is input.balance and the
\* owning account's currentBalance is input.balance, whatever the date of the
\* entry relative to the stored entries and whatever currentBalance was.
C12_CreateEntryAppliesBalance ==
    (last.op = "createEntry" /\ Active.err = "ok") =>
        /\ \E e \in AllEntries(useLocal, W) :
              /\ e.id = Active.val
              /\ e.accountId = last.input.accountId
              /\ e.balance = last.input.balance
        /\ Cardinality({e \in AllEntries(useLocal, W) : e.id = Active.val}) = 1
        /\ \E a \in AllAccounts(useLocal, W) :
              a.id = last.input.accountId /\ a.currentBalance = last.input.balance

\* An entry was created with a date before that of a stored entry of the
\* same account whose balance an update had moved to another value.
C12_Witness ==
    /\ last.op = "createEntry" /\ Active.err = "ok"
    /\ \E other \in EntriesUnder(useLocal, W, last.input.accountId) :
          /\ other.id # Active.val
          /\ other.date > last.input.date
          /\ other.balance \in UpdatedBalances
          /\ other.balance # last.input.balance

\* C13: whenever updateEntry is called with a balance among the partial
\* fields, after it completes the currentBalance of the account that owns the
\* entry is that balance, on the local and on the remote variant alike.
C13_UpdateEntryPropagatesBalance ==
    (last.op = "updateEntry" /\ "balance" \in DOMAIN last.input /\ Active.err = "ok") =>
        \A e \in AllEntries(useLocal, W) :
            e.id = last.id =>
                \E a \in AllAccounts(useLocal, W) :
                    a.id = e.accountId /\ a.currentBalance = last.input.balance

\* C14: updateEntry called without a balance among the partial fields leaves
\* every field of every account record, currentBalance included, unchanged.
C14_UpdateWithoutBalanceKeepsAccount ==
    [][(last'.op = "updateEntry" /\ "balance" \notin DOMAIN last'.input) =>
          /\ asyncStorage'.accounts = asyncStorage.accounts
          /\ firestore'.accounts = firestore.accounts]_vars

\* The date of an entry was edited while the currentBalance of its account
\* differs from the balance of the entry.
C14_Witness ==
    /\ last.op = "updateEntry" /\ Active.err = "ok"
    /\ "balance" \notin DOMAIN last.input
    /\ \E e \in AllEntries(useLocal, W), a \in AllAccounts(useLocal, W) :
          /\ e.id = last.id /\ e.date = last.input.date
          /\ a.id = e.accountId /\ a.currentBalance # e.balance

\* C15: the backend deleteEntry removes only the entry with the given id and
\* never writes the account record: currentBalance and every other entry are
\* the same after deleteEntry as before (recomputing is the caller's step).
C15_DeleteEntryRemovesOnlyTheEntry ==
    [][last'.op = "deleteEntry" =>
          /\ asyncStorage'.accounts = asyncStorage.accounts
          /\ firestore'.accounts = firestore.accounts
          /\ {e \in AllEntries(useLocal, W)' : e.id # last'.id}
               = {e \in AllEntries(useLocal, W) : e.id # last'.id}
          /\ \A a \in AccountIds :
               FilterOutId(asyncStorage'.entries[a], last'.id)
                 = FilterOutId(asyncStorage.entries[a], last'.id)
          /\ Active'.err = "ok" =>
               {e \in AllEntries(useLocal, W)' :
                   e.id = last'.id /\ (useLocal => e.accountId = last'.accountId)} = {}]_vars

\* One of the two entries of an existing account was deleted; the account
\* keeps a currentBalance that is not the balance of the remaining entry.
C15_Witness ==
    /\ last.op = "deleteEntry" /\ Active.err = "ok"
    /\ last.existed /\ last.had = 2
    /\ \E e \in EntriesUnder(useLocal, W, last.accountId),
          a \in AllAccounts(useLocal, W) :
          /\ EntriesUnder(useLocal, W, last.accountId) = {e}
          /\ e.id # last.id
          /\ a.id = last.accountId /\ a.currentBalance # e.balance

\* C16: getEntriesByAccount(accountId) returns exactly the entries stored for
\* that account, each once, in non-increasing order of date, on both
\* backends and whatever the on-disk order of the local list.
C16_EntriesExactAndDateDescending ==
    /\ \A a \in AccountIds :
          LET r == getEntriesByAccount(useLocal, W, a, 0)
          IN /\ r.err = "ok"
             /\ Range(r.val) = EntriesUnder(useLocal, W, a)
             /\ useLocal => Range(r.val) = Range(asyncStorage.entries[a])
             /\ Len(r.val) = Cardinality(EntriesUnder(useLocal, W, a))
             /\ \A i \in 1..(Len(r.val) - 1) : r.val[i].date >= r.val[i + 1].date
    /\ last.op = "getEntriesByAccount" =>
          Active = Outcome(getEntriesByAccount(useLocal, W, last.accountId, 0))

\* The local list holds an older entry in front of a newer one, and
\* getEntriesByAccount returned the two with the newer one first.
C16_Witness ==
    /\ useLocal /\ last.op = "getEntriesByAccount" /\ Active.err = "ok"
    /\ Len(asyncStorage.entries[last.accountId]) = 2
    /\ asyncStorage.entries[last.accountId][1].date
         < asyncStorage.entries[last.accountId][2].date
    /\ Len(Active.val) = 2 /\ Active.val[1].date > Active.val[2].date

\* C17: in the local variant, updateAccount on an id that is not in the
\* stored account list fails with a not-found error and leaves the stored
\* account list unchanged.
C17_UpdateMissingAccountNotFound ==
    [][(useLocal /\ last'.op = "updateAccount" /\ ~last'.existed) =>
          /\ last'.local.err = "NotFound"
          /\ asyncStorage'.accounts = asyncStorage.accounts
          /\ asyncStorage' = asyncStorage]_vars

\* updateAccount was called on an unknown id while another account is stored.
C17_Witness ==
    /\ useLocal /\ last.op = "updateAccount" /\ ~last.existed
    /\ last.local.err = "NotFound"
    /\ asyncStorage.accounts # <<>>
    /\ \A i \in DOMAIN asyncStorage.accounts : asyncStorage.accounts[i].id # last.id

\* C26: in the local variant createEntry for an accountId that has no stored
\* account fails with not-found and the entry write is not rolled back: the
\* new entry stays at the head of the list stored under that accountId.
C26_OrphanEntryStaysPersisted ==
    [][(useLocal /\ last'.op = "createEntry" /\ ~last'.existed) =>
          /\ Active'.err = "NotFound"
          /\ asyncStorage'.accounts = asyncStorage.accounts
          /\ asyncStorage'.entries =
               [asyncStorage.entries EXCEPT ![last'.accountId] =
                   <<Merge([id |-> last'.id], last'.input)>> \o @]]_vars

\* createEntry failed with not-found on an id without account while another
\* account is stored, and the new entry is stored under that id.
C26_Witness ==
    /\ useLocal /\ last.op = "createEntry" /\ ~last.existed
    /\ Active.err = "NotFound"
    /\ asyncStorage.accounts # <<>>
    /\ FindIndex(asyncStorage.entries[last.accountId], last.id) = 1

\* C27: in the local variant updateEntry on an entry id that is not in the
\* stored entry list of the account fails with not-found and leaves the
\* stored entry lists and the account records unchanged.
C27_UpdateMissingEntryNotFound ==
    [][(/\ useLocal /\ last'.op = "updateEntry"
        /\ ~Missing(last'.accountId)
        /\ FindIndex(asyncStorage.entries[last'.accountId], last'.id) = 0) =>
          /\ Active'.err = "NotFound"
          /\ asyncStorage' = asyncStorage]_vars

\* updateEntry with a balance failed with not-found on an id that is not in
\* the list of an account that is stored and has entries.
C27_Witness ==
    /\ useLocal /\ last.op = "updateEntry" /\ Active.err = "NotFound"
    /\ "balance" \in DOMAIN last.input
    /\ last.existed /\ last.had > 0
    /\ FindIndex(asyncStorage.entries[last.accountId], last.id) = 0

\* C28: deleteAccount(id) changes nothing outside the deleted account: every
\* other account record and every entry whose accountId differs from id is
\* stored after the call as before, on the backend selected.
C28_DeleteAccountFrame ==
    [][last'.op = "deleteAccount" =>
          /\ FilterOutId(asyncStorage'.accounts, last'.id)
               = FilterOutId(asyncStorage.accounts, last'.id)
          /\ \A a \in AccountIds \ {last'.id} :
               asyncStorage'.entries[a] = asyncStorage.entries[a]
          /\ {a \in firestore'.accounts : a.id # last'.id}
               = {a \in firestore.accounts : a.id # last'.id}
          /\ {e \in firestore'.entries : e.accountId # last'.id}
               = {e \in firestore.entries : e.accountId # last'.id}]_vars

\* An account with an entry was deleted while another account is stored and
\* entries are stored under the other id.
C28_Witness ==
    /\ last.op = "deleteAccount" /\ Active.err = "ok"
    /\ last.existed /\ last.had > 0
    /\ ~Exists(useLocal, W, last.id)
    /\ AllAccounts(useLocal, W) # {}
    /\ AllEntries(useLocal, W) # {}

----------------------------------------------------------------------------
(* Properties of the facade operations over a failing medium (SpecFault).  *)

\* C18: no storage or facade operation swallows a failure of the medium:
\* whenever a read or write of the medium fails during an operation, the
\* operation returns a failure to its caller, not a normal result. Stated for
\* the accesses an operation performs on every path: its first access, the
\* setItem of the local create/delete operations, the getDocs of the remote
\* deleteAccount and the removeItem of the local deleteAccount.
C18_NoFailureSwallowed ==
    LET validated == useLocal /\ Active.err = "ValidationFailure"
        performed ==
            \/ last.fault = 1
            \/ /\ last.fault = 2
               /\ \/ useLocal /\ last.op \in {"createAccount", "deleteAccount",
                                              "createEntry", "deleteEntry"}
                  \/ ~useLocal /\ last.op = "deleteAccount"
            \/ last.fault = 3 /\ useLocal /\ last.op = "deleteAccount"
    IN (last.op # "init" /\ ~validated /\ performed) => Active.err # "ok"

\* C19: getAccountById(id) returns the stored account when id exists, returns
\* null without failing when it does not, and reports a failure (not null)
\* when the medium fails, on both backends.
C19_GetAccountByIdReportsFailure ==
    last.op = "getAccountById" =>
        IF last.fault = 1 THEN Active.err # "ok"
        ELSE /\ Active.err = "ok"
             /\ last.existed =>
                  Active.val \in AllAccounts(useLocal, W) /\ Active.val.id = last.id
             /\ ~last.existed => Active.val = None

\* C20: in local mode, facade updateEntry without accountId among the updates
\* and facade deleteEntry without accountId fail with a validation error
\* before any storage access, leaving the persisted accounts and entries
\* unchanged.
C20_LocalValidationBeforeStorage ==
    [][(/\ useLocal
        /\ \/ /\ last'.op = "updateEntry"
              /\ ("accountId" \notin DOMAIN last'.input \/ Missing(last'.accountId))
           \/ last'.op = "deleteEntry" /\ Missing(last'.accountId)) =>
          /\ last'.local.err = "ValidationFailure"
          /\ asyncStorage' = asyncStorage
          /\ firestore' = firestore]_vars

\* deleteEntry was called without accountId on the id of a stored entry, on
\* a medium that fails its next access: the call failed on validation.
C20_Witness ==
    /\ useLocal /\ last.op = "deleteEntry" /\ Missing(last.accountId)
    /\ last.fault = 1 /\ last.local.err = "ValidationFailure"
    /\ \E e \in AllEntries(useLocal, W) : e.id = last.id
    /\ asyncStorage.accounts # <<>>

\* The access of createEntry / updateEntry that writes the entry, and the
\* one that writes the account balance, on the variant selected.
EntryWrite == IF useLocal THEN 2 ELSE 1

BalanceWrite == IF useLocal THEN 4 ELSE 2

\* The entry with the id of the last call is stored with the fields given.
EntryWritten ==
    \E e \in AllEntries(useLocal, W) :
        e.id = last.id /\ \A k \in DOMAIN last.input : e[k] = last.input[k]

\* C23: in createEntry and updateEntry, on both backends, the entry write
\* comes before the account-balance write with no other write in between,
\* and when the entry write fails no account write is performed: a failed
\* entry write leaves currentBalance (and everything stored) unchanged; the
\* account records change only once the entry is written; a failed balance
\* write leaves the entry written and the account records unchanged; nothing
\* but the entry and the account records is written.
C23_EntryWriteBeforeBalanceWrite ==
    [][last'.op \in {"createEntry", "updateEntry"} =>
          /\ last'.fault = EntryWrite =>
               /\ Active'.err # "ok"
               /\ asyncStorage' = asyncStorage /\ firestore' = firestore
          /\ (asyncStorage'.accounts # asyncStorage.accounts
                 \/ firestore'.accounts # firestore.accounts) => EntryWritten'
          /\ (last'.fault = BalanceWrite /\ Active'.err = "StorageFailure") =>
               /\ EntryWritten'
               /\ asyncStorage'.accounts = asyncStorage.accounts
               /\ firestore'.accounts = firestore.accounts
          /\ \A a \in AccountIds \ {last'.accountId} :
               asyncStorage'.entries[a] = asyncStorage.entries[a]
          /\ {e \in firestore'.entries : e.id # last'.id}
               = {e \in firestore.entries : e.id # last'.id}]_vars

\* createEntry wrote the entry and then failed on the balance write: the
\* entry is stored and the account keeps another currentBalance.
C23_Witness ==
    /\ last.op = "createEntry" /\ last.fault = BalanceWrite
    /\ Active.err = "StorageFailure"
    /\ EntryWritten
    /\ \E a \in AllAccounts(useLocal, W) :
          a.id = last.accountId /\ a.currentBalance # last.input.balance

\* C24: in the remote variant deleteAccount removes the account document
\* before it deletes any entry: whatever access of the fan-out fails or is
\* cut short, an account record that still exists has all of its entries
\* (entries may be orphaned, an existing account never misses some).
C24_AccountGoesBeforeItsEntries ==
    [][(~useLocal /\ last'.op = "deleteAccount") =>
          /\ HasDoc(firestore'.accounts, last'.id) => firestore' = firestore
          /\ firestore'.entries # firestore.entries =>
               /\ ~HasDoc(firestore'.accounts, last'.id)
               /\ \A a \in firestore'.accounts :
                    EntriesUnder(FALSE, W, a.id)' = EntriesUnder(FALSE, W, a.id)]_vars

\* The fan-out stopped half way: the account had two entries, one of them is
\* left and the account document is gone.
C24_Witness ==
    /\ ~useLocal /\ last.op = "deleteAccount" /\ last.remote.err = "StorageFailure"
    /\ last.existed /\ last.had = 2
    /\ Cardinality(EntriesUnder(FALSE, W, last.id)) = 1
    /\ ~HasDoc(firestore.accounts, last.id)

\* C29: in the local variant createAccount never removes or alters an
\* existing account: after it returns successfully the stored account list
\* is the list stored before plus the one new account, also when the read of
\* the stored list fails during the call.
C29_CreateAccountKeepsAccounts ==
    [][(accountsUseLocal /\ last'.op = "createAccount" /\ last'.local.err = "ok") =>
          /\ Len(asyncStorage'.accounts) = Len(asyncStorage.accounts) + 1
          /\ Range(asyncStorage.accounts) \subseteq Range(asyncStorage'.accounts)
          /\ \E a \in Range(asyncStorage'.accounts) : a.id = last'.id]_vars

----------------------------------------------------------------------------
(* Properties of the backend selection (SpecSelect).                       *)

\* C21: the backend is selected once, at module load, and never changes: the
\* local variant exactly when projectId is 'demo-project' or apiKey is
\* 'demo-api-key' or the probe throws, otherwise the remote variant; the
\* accounts facade and the entries facade select the same variant, so every
\* facade operation of the process dispatches to that one backend.
C21_OneBackendPerProcess ==
    /\ [](LET demo == \/ ~db.readable
                      \/ db.projectId = "demo-project"
                      \/ db.apiKey = "demo-api-key"
          IN /\ useLocal = demo
             /\ accountsUseLocal = useLocal
             /\ last.op # "init" =>
                  /\ (last.local # NotRun) <=> demo
                  /\ (last.remote # NotRun) <=> ~demo)
    /\ [][/\ db' = db
          /\ useLocal' = useLocal
          /\ accountsUseLocal' = accountsUseLocal]_vars

\* Only the apiKey is the demo value: an account was created and then an
\* entry for it, both in the local store.
C21_Witness ==
    /\ db.readable /\ db.projectId # "demo-project" /\ db.apiKey = "demo-api-key"
    /\ last.op = "createEntry" /\ last.local.err = "ok" /\ last.remote = NotRun
    /\ asyncStorage.accounts # <<>>
    /\ firestore = NoDocuments

----------------------------------------------------------------------------
(* Properties of interleaved calls (SpecInterleave).                       *)

\* What is stored for one account: its record and its entry list.
StoredFor(as, a) ==
    [account |-> IF FindIndex(as.accounts, a) = 0 THEN None
                 ELSE as.accounts[FindIndex(as.accounts, a)],
     entries |-> as.entries[a]]

\* C25: operations on one account never change another account: however two
\* calls issued for two different accounts of the local variant interleave
\* at their await points, both accounts end with the record and the entry
\* list that running the two calls one after the other gives.
C25_InterleavingAsSequential ==
    AllDone =>
        LET c1 == pending.run[1]
            c2 == pending.run[2]
        IN \E after \in {Alone(Alone(pending.issuedOn, c1), c2),
                         Alone(Alone(pending.issuedOn, c2), c1)} :
              \A a \in {c1.accountId, c2.accountId} :
                  StoredFor(asyncStorage, a) = StoredFor(after, a)

----------------------------------------------------------------------------
(* Properties of the Dashboard protocol over a failing medium (SpecCrash). *)

\* C22: when an operation was interrupted between its entry write and its
\* account-balance write, the mismatch lasts only until the next corrective
\* write: once a create, an update of the head entry or a delete protocol run
\* has completed successfully on the account, currentBalance is the balance
\* of the head entry (initialBalance when no entry remains).
C22_CorrectiveWriteRestoresBalance ==
    (/\ last.err = "ok"
     /\ \/ last.op \in {"create", "delete"}
        \/ last.op = "update" /\ last.wasHead) =>
        Stored.currentBalance = HeadBalance(useLocal, W, account)

====
